---- MODULE Spec2Model ----
(***************************************************************************)
(* Model of the story-branch generator: the dialogue enrichment pass       *)
(* (ConversationEnhancer.enhance_conversations), the generation pipeline   *)
(* (StoryBranchGenerator.create_story_branch_from_text) with the guard     *)
(* main() puts in front of it, the JSON artifact (utils.save_json_to_file, *)
(* utils.read_json_from_file) and main()'s loops over a batch of sources.  *)
(*                                                                         *)
(* Spec       one enrichment pass over one document                        *)
(* SpecTwice  two enrichment passes in a row over one document             *)
(* SpecBuild  one run of the generation pipeline from the button click     *)
(* SpecJson   a document saved to its JSON file and read back              *)
(* SpecBatch  one run of main() over a batch of PDFs and URLs              *)
(* SpecEmptyChat  one enrichment pass over a document of equal nodes, the    *)
(*            model answering with an empty list among its outputs           *)
(***************************************************************************)
EXTENDS Integers, Sequences, FiniteSets, TLC

VARIABLES
    nodes,           \* story_branch.nodes, mutated in place
    orig,            \* story_branch.nodes as they were when the pass started
    dialogue_nodes,  \* the selected node objects, as positions in nodes
    i,               \* 1-based position of the for loop in dialogue_nodes
    node_index,      \* 1-based result of story_branch.nodes.index(node)
    result,          \* result.final_output of the last model call
    pc,              \* control point of enhance_conversations
    calls,           \* positions of the nodes a model call was issued for
    outputs,         \* the final_output received for each call, in order
    artifact,        \* what the file at output_path holds
    prompts,         \* the prompt of each model call, in order
    writes,          \* for every node, how often the pass assigned its chat,
                     \* its background and its character2.type
    bpc,             \* control point of main / create_story_branch_from_text
    disease,         \* the topic the operator typed in
    how_many_nodes,  \* the number of nodes the operator asked for
    filename,        \* the source name, a sequence of name pieces
    summary,         \* summary_result.final_output
    summary_file,    \* what <base_filename>_summary.txt holds
    story,           \* story_result.final_output as the model produced it
    fault,           \* the stage whose model call raised, "" if none did
    returned,        \* the tuple create_story_branch_from_text returned
    run_no,          \* 1 in the first enrichment pass over a document, 2 in
                     \* a second pass over the document the first returned
    first_selection, \* dialogue_nodes of the first pass, once it is over
    jpc,             \* control point of a save and read-back of a document
    jstory,          \* the StoryBranch handed to model_dump
    jfile,           \* the JSON file: whether it exists, and its tokens
    jsaved,          \* TRUE once json.dump has completed
    jdata,           \* what read_json_from_file returned
    sources,         \* the batch: the uploaded PDFs, then the URLs
    combine_excel,   \* the checkbox for one spreadsheet for all documents
    enhance_conversations,  \* the checkbox for the enrichment pass
    cur,             \* 1-based position of main's loops in sources
    mpc,             \* control point of main
    all_story_branches,     \* the list main collects for the combined export
    track,           \* for every source, what has happened to it so far
    combined         \* the combined workbook: whether made, and its rows

enrichVars == <<nodes, orig, dialogue_nodes, i, node_index, result, pc, calls,
                outputs, artifact, prompts, writes>>
buildVars == <<bpc, disease, how_many_nodes, filename, summary, summary_file,
              story, fault, returned>>
rerunVars == <<run_no, first_selection>>
jsonVars == <<jpc, jstory, jfile, jsaved, jdata>>
batchConfig == <<sources, combine_excel, enhance_conversations>>
batchVars == <<sources, combine_excel, enhance_conversations, cur, mpc,
               all_story_branches, track, combined>>
vars == <<nodes, orig, dialogue_nodes, i, node_index, result, pc, calls,
          outputs, artifact, prompts, writes, bpc, disease, how_many_nodes, filename, summary,
          summary_file, story, fault, returned, run_no, first_selection, jpc,
          jstory, jfile, jsaved, jdata, sources, combine_excel,
          enhance_conversations, cur, mpc, all_story_branches, track, combined>>

\* what an enrichment pass, and what the generation pipeline, leaves alone
besidesEnrich == <<buildVars, rerunVars, jsonVars, batchVars>>
besidesBuild == <<enrichVars, rerunVars, jsonVars, batchVars>>
besidesTwice == <<buildVars, jsonVars, batchVars>>
besidesJson == <<enrichVars, buildVars, rerunVars, batchVars>>
besidesBatch == <<enrichVars, rerunVars, jsonVars>>

-----------------------------------------------------------------------------
(* Bounds *)

MaxNodes == 4

\* the longest document saved and read back
MaxJsonNodes == 2

\* the largest number of sources in a batch
MaxSources == 3

-----------------------------------------------------------------------------
(* The document model (models/models.py) *)

None == "None"

BackgroundType ==
    {"bagno", "camera", "citta", "cucina", "ufficio", "parco", "palestra", "sala"}

CharacterType ==
    {"amico", "amica", "collega", "nipote", "familiare", "conoscente", "paziente"}

\* ChatMessage: who is 1 for character1, 2 for character2
ChatMessage(who, text) == [who |-> who, text |-> text]

\* A value of Node.chat.  form tells what the value is: "None", a list of
\* ChatMessage objects ("ChatMessage"), or a value json.loads produced
\* ("list", "dict", "int"); a ChatMessage and a dict never compare equal.
NoChat == [form |-> "None", items |-> <<>>]

GeneratedChat == [form |-> "ChatMessage", items |-> <<ChatMessage(1, "t0")>>]

\* Choice, and choices with the score of a correct one, of an incorrect one,
\* and with the default score of the field
Choice(text, outcome, impact, score) ==
    [text |-> text, outcome |-> outcome, impact |-> impact, score |-> score]

Good(text) == Choice(text, "migliora", "positivo", 1)

Bad(text) == Choice(text, "peggiora", "negativo", -1)

Unscored(text) == Choice(text, "peggiora", "negativo", 0)

\* Node: character1 and character2 are None or the type of the Character
\* (Character.type is a required field).
Node(situation, reasoning, background, character1, character2, chat, choices) ==
    [situation |-> situation, reasoning |-> reasoning,
     background |-> background, character1 |-> character1,
     character2 |-> character2, chat |-> chat, choices |-> choices]

-----------------------------------------------------------------------------
(* json.loads, as far as the enhancer depends on it *)

FourTurns ==
    <<ChatMessage(2, "a"), ChatMessage(1, "b"), ChatMessage(2, "c"), ChatMessage(1, "d")>>

\* The texts the model may answer with: a list of four who/text objects, a
\* single who/text object, a number, and text that is not JSON.
RawTurns == "[{who:2,text:a},{who:1,text:b},{who:2,text:c},{who:1,text:d}]"
RawObject == "{who:1,text:a}"
RawNumber == "7"
RawGarbage == "Ecco il dialogo:"

\* The answer that is an empty JSON list, and the chat that is an empty
\* list: json.loads("[]") and a chat of no messages are the same value []
RawEmptyList == "[]"

EmptyChat == [form |-> "list", items |-> <<>>]

RawOutputs == {RawTurns, RawObject, RawNumber, RawGarbage}

\* json.loads(raw): ok is FALSE when it raises JSONDecodeError
JsonLoads(raw) ==
    CASE raw = RawTurns  -> [ok |-> TRUE, value |-> [form |-> "list", items |-> FourTurns]]
      [] raw = RawObject -> [ok |-> TRUE, value |-> [form |-> "dict", items |-> <<ChatMessage(1, "a")>>]]
      [] raw = RawNumber -> [ok |-> TRUE, value |-> [form |-> "int", items |-> <<>>]]
      [] raw = RawEmptyList -> [ok |-> TRUE, value |-> EmptyChat]
      [] OTHER           -> [ok |-> FALSE, value |-> NoChat]

\* len(v) is defined for lists, dicts and strings; it raises TypeError for a number
HasLen(v) == v.form \in {"list", "dict", "str"}

-----------------------------------------------------------------------------
(* ConversationEnhancer.enhance_conversations *)

MaxDialogueNodes == 3

Positions(ns) == [p \in 1..Len(ns) |-> p]

\* HasCharacter2 passing over a node that already carries a dialogue
HasCharacter2AndNoChat(ns, p) ==
    ns[p].character2 # None /\ ns[p].chat.form = "None"

\* line 44: if node.character2
HasCharacter2(ns, p) == ns[p].character2 # None

\* DialogueNodes without the cut to three
DialogueNodesUncapped(ns) ==
    SelectSeq(Positions(ns), LAMBDA p : HasCharacter2(ns, p))

\* lines 42-48: the nodes that have character2, in document order, cut to three
DialogueNodes(ns) ==
    LET withC2 == SelectSeq(Positions(ns), LAMBDA p : HasCharacter2(ns, p))
    IN  IF Len(withC2) > MaxDialogueNodes
        THEN SubSeq(withC2, 1, MaxDialogueNodes)
        ELSE withC2

\* NodesIndex taking the last equal node instead of the first
NodesIndexLast(ns, n) ==
    CHOOSE k \in 1..Len(ns) : ns[k] = n /\ \A j \in (k + 1)..Len(ns) : ns[j] # n

\* line 53, list.index: the first position holding a node equal to n (by
\* value: pydantic models compare by their fields)
NodesIndex(ns, n) ==
    CHOOSE k \in 1..Len(ns) : ns[k] = n /\ \A j \in 1..(k - 1) : ns[j] # n

\* ValidatedBackground overwriting valid backgrounds too
ValidatedBackgroundAlways(b) == "sala"

\* ValidatedBackground that only fills in a missing background
ValidatedBackgroundOnlyMissing(b) ==
    IF b = None \/ b = "" THEN "sala" ELSE b

\* lines 57-61
ValidatedBackground(b) ==
    IF b = None \/ b = "" \/ b \notin BackgroundType THEN "sala" ELSE b

\* ValidatedType without the default
ValidatedTypeKept(t) == t

\* lines 64-69; node.character2 is not None for a selected node
ValidatedType(t) ==
    IF t # None /\ t \notin CharacterType THEN "familiare" ELSE t

\* lines 154-167: the chat the try block leaves in the node it writes to.
\* json.loads or len() raising is caught and the node keeps its chat.
EnhancedChat(raw, old) ==
    LET parsed == JsonLoads(raw)
    IN  IF parsed.ok /\ HasLen(parsed.value) THEN parsed.value ELSE old

\* lines 157-161: json.loads and len() went through, so line 161 assigns
ChatAssigned(raw) == JsonLoads(raw).ok /\ HasLen(JsonLoads(raw).value)

\* ChoiceText taking the last choice for a missing one
ChoiceTextOfLast(choices, k) ==
    IF choices = <<>> THEN ""
    ELSE IF Len(choices) >= k THEN choices[k].text
    ELSE choices[Len(choices)].text

\* lines 139 and 141: the text of the k-th choice, "" when there is none
ChoiceText(choices, k) == IF Len(choices) >= k THEN choices[k].text ELSE ""

\* lines 127-147: what the prompt is built from, read off the node after its
\* validation
Prompt(node) ==
    [situation |-> node.situation, reasoning |-> node.reasoning,
     background |-> node.background, character2 |-> node.character2,
     choice1 |-> ChoiceText(node.choices, 1),
     choice2 |-> ChoiceText(node.choices, 2)]

\* no assignment to any field of a node yet
NoWrites == [chat |-> 0, background |-> 0, character2 |-> 0]

\* lines 42-48
Select ==
    /\ pc = "select"
    /\ dialogue_nodes' = DialogueNodes(nodes)
    /\ i' = 1
    /\ pc' = "loop"
    /\ UNCHANGED <<prompts, writes, nodes, orig, node_index, result, calls, outputs, artifact>>

\* lines 51-151: one iteration up to the model call.  node is the object at
\* position dialogue_nodes[i]; the index lookup comes before the validation.
Iterate ==
    /\ pc = "loop"
    /\ i <= Len(dialogue_nodes)
    /\ LET p == dialogue_nodes[i]
           node == nodes[p]
       IN  /\ node_index' = NodesIndex(nodes, node)
           /\ nodes' = [nodes EXCEPT
                  ![p].background = ValidatedBackground(node.background),
                  ![p].character2 = ValidatedType(node.character2)]
           /\ writes' = [writes EXCEPT
                  ![p].background =
                      @ + (IF ValidatedBackground(node.background) # node.background
                           THEN 1 ELSE 0),
                  ![p].character2 =
                      @ + (IF ValidatedType(node.character2) # node.character2
                           THEN 1 ELSE 0)]
           /\ prompts' = Append(prompts, Prompt(nodes'[p]))
           /\ calls' = Append(calls, p)
    /\ pc' = "await"
    /\ UNCHANGED <<orig, dialogue_nodes, i, result, outputs, artifact>>

\* SetChat building a new node from the fields the prompt was made of
SetChatOnFreshNode(ns, k, chat) ==
    [ns EXCEPT ![k] = Node(ns[k].situation, "", ns[k].background, None,
                           ns[k].character2, chat, ns[k].choices)]

\* line 161: story_branch.nodes[node_index].chat = enhanced_chat
SetChat(ns, k, chat) == [ns EXCEPT ![k].chat = chat]

\* RunnerRaises with the artifact written on the way out
RunnerRaisesAfterSaving ==
    /\ pc = "await"
    /\ pc' = "raised"
    /\ artifact' = [written |-> TRUE, nodes |-> nodes]
    /\ UNCHANGED <<prompts, writes, nodes, orig, dialogue_nodes, i, node_index, result, calls,
                   outputs>>

\* lines 151-167: Runner.run returns the model's text and the try block
\* handles it, which ends the iteration
RunnerReturns(raw) ==
    /\ pc = "await"
    /\ result' = raw
    /\ outputs' = Append(outputs, raw)
    /\ nodes' = SetChat(nodes, node_index,
                        EnhancedChat(raw, nodes[node_index].chat))
    /\ i' = i + 1
    /\ pc' = "loop"
    /\ writes' = [writes EXCEPT
           ![node_index].chat = @ + (IF ChatAssigned(raw) THEN 1 ELSE 0)]
    /\ UNCHANGED <<orig, dialogue_nodes, node_index, calls, artifact, prompts>>

\* line 151: Runner.run raises; nothing in enhance_conversations catches it
RunnerRaises ==
    /\ pc = "await"
    /\ pc' = "raised"
    /\ UNCHANGED <<prompts, writes, nodes, orig, dialogue_nodes, i, node_index, result, calls,
                   outputs, artifact>>

\* Save writing the nodes the pass selected instead of the document
SaveSelectedOnly ==
    /\ pc = "loop"
    /\ i > Len(dialogue_nodes)
    /\ artifact' = [written |-> TRUE,
                    nodes |-> [j \in 1..Len(dialogue_nodes) |-> nodes[dialogue_nodes[j]]]]
    /\ pc' = "done"
    /\ UNCHANGED <<prompts, writes, nodes, orig, dialogue_nodes, i, node_index,
                   result, calls, outputs>>

\* lines 170-175: the loop is over, the whole document is written and returned
Save ==
    /\ pc = "loop"
    /\ i > Len(dialogue_nodes)
    /\ artifact' = [written |-> TRUE, nodes |-> nodes]
    /\ pc' = "done"
    /\ UNCHANGED <<prompts, writes, nodes, orig, dialogue_nodes, i, node_index, result, calls, outputs>>

\* lines 171-172: open() or json.dump raises; nothing catches it
SaveRaises ==
    /\ pc = "loop"
    /\ i > Len(dialogue_nodes)
    /\ pc' = "raised"
    /\ UNCHANGED <<prompts, writes, nodes, orig, dialogue_nodes, i, node_index, result, calls,
                   outputs, artifact>>

\* lines 28-48, a second call on the document the first call returned: the
\* document is the one mutated in place, the file of the first call exists
EnhanceAgain ==
    /\ pc = "done"
    /\ run_no = 1
    /\ run_no' = 2
    /\ first_selection' = dialogue_nodes
    /\ orig' = nodes
    /\ dialogue_nodes' = <<>>
    /\ i' = 1
    /\ node_index' = 1
    /\ result' = ""
    /\ calls' = <<>>
    /\ outputs' = <<>>
    /\ prompts' = <<>>
    /\ writes' = [p \in 1..Len(nodes) |-> NoWrites]
    /\ pc' = "select"
    /\ UNCHANGED <<nodes, artifact>>

-----------------------------------------------------------------------------
(* StoryBranchGenerator.create_story_branch_from_text, and the guard of main *)

MaxStoryNodes == 2

\* A StoryBranch as far as the pipeline looks at it: its disease and its
\* nodes, each node being the list of its choices.  ok is FALSE for None.
NoStory == [ok |-> FALSE, disease |-> "", nodes |-> <<>>]

StoryBranch(d, ns) == [ok |-> TRUE, disease |-> d, nodes |-> ns]

\* The choice lists a node of a schema-valid answer may carry: the two
\* choices asked for, a choice left at the default score, a single choice,
\* three choices.
ChoiceLists ==
    { <<Good("a"), Bad("b")>>, <<Good("a"), Unscored("b")>>,
      <<Good("a")>>, <<Good("a"), Bad("b"), Bad("c")>> }

\* The second component of the returned tuple: None or a name
NoName == [isNone |-> TRUE, val |-> <<>>]

Name(pieces) == [isNone |-> FALSE, val |-> pieces]

\* What the operator may type as disease, and the source names: a name is a
\* sequence of pieces, of which ".pdf" is the one str.replace looks for.
Diseases == {"", "hypertension", "diabete"}

Filenames ==
    { <<"report", ".pdf">>, <<"my", ".pdf", "notes", ".pdf">>,
      <<"page", ".html">>, <<"report">> }

\* What the generator model may put in the disease field of its answer
ModelDiseases == {"", "hypertension", "ipertensione"}

\* line 41: filename.replace('.pdf', '') removes every occurrence
ReplacePdf(name) == SelectSeq(name, LAMBDA piece : piece # ".pdf")

\* lines 39 and 153: the try block spans the whole body, so an exception of
\* either stage reaches the handler
Caught(stage) == stage \in {"formatter", "generator"}

\* ExceptionResult handing the derived name back with the failure
ExceptionResultKeepsName == [doc |-> NoStory, name |-> Name(ReplacePdf(filename))]

\* lines 153-158: the handler's return value
ExceptionResult == [doc |-> NoStory, name |-> NoName]

\* line 145: a StoryBranch object is true, None is not
Truthy(final_output) == final_output.ok

\* WithDisease leaving the disease the model answered
WithDiseaseOfModel(final_output, d) == final_output

\* lines 145-149: the disease field of the result is set to the argument
WithDisease(final_output, d) ==
    IF Truthy(final_output) THEN [final_output EXCEPT !.disease = d] ELSE final_output

\* main lines 104-107 and 168-170: the button is pressed with a disease and a
\* source; without a disease main returns before anything is called
ClickGenerate(d, f, n) ==
    /\ bpc = "idle"
    /\ disease' = d
    /\ how_many_nodes' = n
    /\ filename' = f
    /\ bpc' = IF d = "" THEN "rejected" ELSE "formatter"
    /\ UNCHANGED <<summary, summary_file, story, fault, returned>>

\* line 64: the formatter's model call returns the cleaned text
FormatterReturns(text) ==
    /\ bpc = "formatter"
    /\ summary' = text
    /\ bpc' = "save_summary"
    /\ UNCHANGED <<disease, how_many_nodes, filename, summary_file, story, fault, returned>>

\* lines 64 and 141: a model call raises (transport fault, or for the
\* generator an answer that does not fit the StoryBranch schema)
StageRaises(stage) ==
    /\ bpc = stage
    /\ fault' = stage
    /\ bpc' = IF Caught(stage) THEN "except" ELSE "escaped"
    /\ UNCHANGED <<disease, how_many_nodes, filename, summary, summary_file, story, returned>>

\* lines 68-70, utils.save_text_to_file: the summary file is written
SaveSummary ==
    /\ bpc = "save_summary"
    /\ summary_file' = summary
    /\ bpc' = "generator"
    /\ UNCHANGED <<disease, how_many_nodes, filename, summary, story, fault, returned>>

\* utils.save_text_to_file lines 62-63: the write fails, the error is logged
\* and swallowed
SaveSummaryFails ==
    /\ bpc = "save_summary"
    /\ bpc' = "generator"
    /\ UNCHANGED <<disease, how_many_nodes, filename, summary, summary_file, story, fault, returned>>

\* line 141: the generator's model call returns.  The agent is built with
\* output_type=StoryBranch, so what it returns is a validated StoryBranch
\* object; an answer that does not validate raises (StageRaises).
GeneratorReturns(d, ns) ==
    /\ bpc = "generator"
    /\ story' = StoryBranch(d, ns)
    /\ bpc' = "set_disease"
    /\ UNCHANGED <<disease, how_many_nodes, filename, summary, summary_file, fault, returned>>

\* lines 144-151
ReturnStory ==
    /\ bpc = "set_disease"
    /\ returned' = [doc |-> WithDisease(story, disease),
                    name |-> Name(ReplacePdf(filename))]
    /\ bpc' = "returned"
    /\ UNCHANGED <<disease, how_many_nodes, filename, summary, summary_file, story, fault>>

\* lines 153-158
ReturnFailure ==
    /\ bpc = "except"
    /\ returned' = ExceptionResult
    /\ bpc' = "returned"
    /\ UNCHANGED <<disease, how_many_nodes, filename, summary, summary_file, story, fault>>

-----------------------------------------------------------------------------
(* utils.save_json_to_file and utils.read_json_from_file *)

\* A value json handles: type is "dict", "list", "str", "int" or "null";
\* items are the elements of a list or, each under its key, the members of
\* a dict in insertion order.
JStr(x) == [type |-> "str", key |-> "", str |-> x, int |-> 0, items |-> <<>>]

JInt(n) == [type |-> "int", key |-> "", str |-> "", int |-> n, items |-> <<>>]

JNull == [type |-> "null", key |-> "", str |-> "", int |-> 0, items |-> <<>>]

JList(items) == [type |-> "list", key |-> "", str |-> "", int |-> 0, items |-> items]

JDict(items) == [type |-> "dict", key |-> "", str |-> "", int |-> 0, items |-> items]

Keyed(k, v) == [v EXCEPT !.key = k]

\* The tokens of a JSON text; the white space of indent=2 lies between them
Punct(c) == [kind |-> "punct", str |-> c, int |-> 0]

TokenOfStr(x) == [kind |-> "str", str |-> x, int |-> 0]

TokenNull == [kind |-> "null", str |-> "", int |-> 0]

\* TokenOfInt writing the number as a string
TokenOfIntQuoted(n) == [kind |-> "str", str |-> ToString(n), int |-> 0]

TokenOfInt(n) == [kind |-> "int", str |-> "", int |-> n]

\* BaseModel.model_dump (main.py line 176): objects become dicts with the
\* fields in declaration order, None stays None
OptionalStr(x) == IF x = None THEN JNull ELSE JStr(x)

DumpCharacter(c) == IF c = None THEN JNull ELSE JDict(<<Keyed("type", JStr(c))>>)

DumpChatMessage(m) ==
    JDict(<<Keyed("who", JInt(m.who)), Keyed("text", JStr(m.text))>>)

DumpChat(chat) ==
    IF chat.form = "None" THEN JNull
    ELSE JList([j \in 1..Len(chat.items) |-> DumpChatMessage(chat.items[j])])

DumpChoice(c) ==
    JDict(<<Keyed("text", JStr(c.text)), Keyed("outcome", JStr(c.outcome)),
            Keyed("impact", JStr(c.impact)), Keyed("score", JInt(c.score))>>)

DumpNode(n) ==
    JDict(<<Keyed("situation", JStr(n.situation)),
            Keyed("reasoning", JStr(n.reasoning)),
            Keyed("background", OptionalStr(n.background)),
            Keyed("character1", DumpCharacter(n.character1)),
            Keyed("character2", DumpCharacter(n.character2)),
            Keyed("chat", DumpChat(n.chat)),
            Keyed("choices",
                  JList([j \in 1..Len(n.choices) |-> DumpChoice(n.choices[j])]))>>)

ModelDump(sb) ==
    JDict(<<Keyed("disease", JStr(sb.disease)),
            Keyed("nodes", JList([j \in 1..Len(sb.nodes) |-> DumpNode(sb.nodes[j])]))>>)

\* json.dump (utils.py line 73): the text of a value
RECURSIVE JsonDump(_), JsonDumpItems(_, _, _)
JsonDump(v) ==
    CASE v.type = "str" -> <<TokenOfStr(v.str)>>
      [] v.type = "int" -> <<TokenOfInt(v.int)>>
      [] v.type = "null" -> <<TokenNull>>
      [] v.type = "list" ->
            <<Punct("[")>> \o JsonDumpItems(v.items, 1, FALSE) \o <<Punct("]")>>
      [] v.type = "dict" ->
            <<Punct("{")>> \o JsonDumpItems(v.items, 1, TRUE) \o <<Punct("}")>>

JsonDumpItems(items, j, keyed) ==
    IF j > Len(items) THEN <<>>
    ELSE (IF j > 1 THEN <<Punct(",")>> ELSE <<>>)
         \o (IF keyed THEN <<TokenOfStr(items[j].key), Punct(":")>> ELSE <<>>)
         \o JsonDump(items[j])
         \o JsonDumpItems(items, j + 1, keyed)

\* json.load (utils.py line 92): the value of a text, or a failure
ParseFailed == [ok |-> FALSE, val |-> JNull, next |-> 0]

Parsed(v, n) == [ok |-> TRUE, val |-> v, next |-> n]

IsPunct(toks, pos, c) ==
    pos <= Len(toks) /\ toks[pos].kind = "punct" /\ toks[pos].str = c

RECURSIVE ParseValue(_, _), ParseItems(_, _, _, _)
ParseValue(toks, pos) ==
    IF pos > Len(toks) THEN ParseFailed
    ELSE LET t == toks[pos]
         IN  CASE t.kind = "str" -> Parsed(JStr(t.str), pos + 1)
               [] t.kind = "int" -> Parsed(JInt(t.int), pos + 1)
               [] t.kind = "null" -> Parsed(JNull, pos + 1)
               [] IsPunct(toks, pos, "[") ->
                     IF IsPunct(toks, pos + 1, "]") THEN Parsed(JList(<<>>), pos + 2)
                     ELSE ParseItems(toks, pos + 1, FALSE, <<>>)
               [] IsPunct(toks, pos, "{") ->
                     IF IsPunct(toks, pos + 1, "}") THEN Parsed(JDict(<<>>), pos + 2)
                     ELSE ParseItems(toks, pos + 1, TRUE, <<>>)
               [] OTHER -> ParseFailed

ParseItems(toks, pos, keyed, acc) ==
    LET keyOk == \/ ~keyed
                 \/ /\ pos <= Len(toks)
                    /\ toks[pos].kind = "str"
                    /\ IsPunct(toks, pos + 1, ":")
        r == ParseValue(toks, IF keyed THEN pos + 2 ELSE pos)
        item == IF keyed THEN Keyed(toks[pos].str, r.val) ELSE r.val
        items == Append(acc, item)
    IN  IF ~keyOk THEN ParseFailed
        ELSE IF ~r.ok THEN ParseFailed
        ELSE IF IsPunct(toks, r.next, ",")
             THEN ParseItems(toks, r.next + 1, keyed, items)
        ELSE IF IsPunct(toks, r.next, IF keyed THEN "}" ELSE "]")
             THEN Parsed(IF keyed THEN JDict(items) ELSE JList(items), r.next + 1)
        ELSE ParseFailed

JsonLoad(toks) ==
    LET r == ParseValue(toks, 1)
    IN  IF r.ok /\ r.next = Len(toks) + 1 THEN r ELSE ParseFailed

NoFile == [exists |-> FALSE, tokens |-> <<>>]

\* utils.py lines 72-76: the file is opened and json.dump completes
SaveJsonToFile ==
    /\ jpc = "save"
    /\ jfile' = [exists |-> TRUE, tokens |-> JsonDump(ModelDump(jstory))]
    /\ jsaved' = TRUE
    /\ jpc' = "saved"
    /\ UNCHANGED <<jstory, jdata>>

\* utils.py lines 72-78: open() raises and there is no file, or the write
\* breaks off and the file holds the first n tokens of the text; either way
\* the error is logged and swallowed
SaveJsonToFileFails(opened, n) ==
    /\ jpc = "save"
    /\ n < Len(JsonDump(ModelDump(jstory)))
    /\ jfile' = IF opened
                THEN [exists |-> TRUE,
                      tokens |-> SubSeq(JsonDump(ModelDump(jstory)), 1, n)]
                ELSE NoFile
    /\ jpc' = "saved"
    /\ UNCHANGED <<jstory, jsaved, jdata>>

\* utils.py lines 89-97: the data of the file, or {} when the file cannot be
\* opened or its text is not JSON
ReadJsonFromFile ==
    /\ jpc = "saved"
    /\ jdata' = IF jfile.exists /\ JsonLoad(jfile.tokens).ok
                THEN JsonLoad(jfile.tokens).val
                ELSE JDict(<<>>)
    /\ jpc' = "read"
    /\ UNCHANGED <<jstory, jfile, jsaved>>

\* utils.py lines 95-97: open() for reading raises
ReadJsonFromFileFails ==
    /\ jpc = "saved"
    /\ jdata' = JDict(<<>>)
    /\ jpc' = "read_failed"
    /\ UNCHANGED <<jstory, jfile, jsaved>>

-----------------------------------------------------------------------------
(* main: the loop over the PDFs, the loop over the URLs, the combined export *)

\* What track holds for a source.  stage is "pending", "running", "skipped"
\* (no text extracted), "failed" or "done"; built tells that
\* create_story_branch_from_text returned a document; json and excel are
\* "no", "written" or "failed"; enriched is "no", "returned" or "raised".
Pending ==
    [stage |-> "pending", built |-> FALSE, json |-> "no", enriched |-> "no",
     appended |-> FALSE, excel |-> "no"]

NoWorkbook == [made |-> FALSE, rows |-> <<>>]

\* utils.get_filename_from_url lines 136-138: os.path.splitext drops the
\* extension the name ends with
IsExtension(piece) == piece \in {".pdf", ".html"}

GetFilenameFromUrl(name) ==
    IF Len(name) > 1 /\ IsExtension(name[Len(name)])
    THEN SubSeq(name, 1, Len(name) - 1)
    ELSE name

\* lines 169 and 289-300: the name handed to create_story_branch_from_text
NameForBuild(source) ==
    IF source.kind = "pdf" THEN source.name ELSE GetFilenameFromUrl(source.name)

\* StoryBranchMade taking whatever came back
StoryBranchMadeAlways(r) == TRUE

\* lines 173 and 304: if story_branch
StoryBranchMade(r) == r.doc.ok

\* PerDocumentExcel writing a spreadsheet per document in either mode
PerDocumentExcelAlways(combine) == TRUE

\* lines 201 and 332: if not combine_excel
PerDocumentExcel(combine) == ~combine

\* OnEnhanceException going on with the document
OnEnhanceExceptionContinue == "append"

\* lines 184-186 and 254: an exception of enhance_conversations reaches the
\* handler of the document's try block, which ends the iteration
OnEnhanceException == "cleanup"

\* excel_converter.combine_story_branches_to_excel lines 179-226: for every
\* entry a separator row, a disease row, and per node a row followed by a
\* row per choice.  src, the position of the entry's source in the batch,
\* is not in the workbook; it tells the sections of equal names apart.
Row(b, kind, n) == [src |-> b.src, branch |-> b.name, kind |-> kind, node |-> n]

ChoiceRows(b, p) == [c \in 1..Len(b.doc.nodes[p]) |-> Row(b, "choice", p)]

RECURSIVE NodeRows(_, _)
NodeRows(b, p) ==
    IF p > Len(b.doc.nodes) THEN <<>>
    ELSE <<Row(b, "node", p)>> \o ChoiceRows(b, p) \o NodeRows(b, p + 1)

RECURSIVE CombineRows(_)
CombineRows(branches) ==
    IF branches = <<>> THEN <<>>
    ELSE <<Row(Head(branches), "separator", 0), Row(Head(branches), "disease", 0)>>
         \o NodeRows(Head(branches), 1)
         \o CombineRows(Tail(branches))

\* lines 137-142 and 270-275: the loop takes the next source
StartSource ==
    /\ mpc = "loop"
    /\ cur < Len(sources)
    /\ cur' = cur + 1
    /\ track' = [track EXCEPT ![cur + 1].stage = "running"]
    /\ mpc' = IF sources[cur + 1].kind = "pdf" THEN "temp_save" ELSE "extract"
    /\ bpc' = "idle"
    /\ filename' = <<>>
    /\ summary' = ""
    /\ summary_file' = ""
    /\ story' = NoStory
    /\ fault' = ""
    /\ returned' = [doc |-> NoStory, name |-> NoName]
    /\ UNCHANGED <<disease, how_many_nodes, batchConfig, all_story_branches,
                   combined>>

\* lines 144-147: the upload is written to the temporary file
TempSave ==
    /\ mpc = "temp_save"
    /\ mpc' = "extract"
    /\ UNCHANGED <<buildVars, batchConfig, cur, all_story_branches, track, combined>>

\* lines 145-146 and 414-418: open() or write() raises; the statement is in
\* front of the document's try block, so the exception reaches the handler
\* of the try block around both loops and the combined export
TempSaveFails ==
    /\ mpc = "temp_save"
    /\ track' = [track EXCEPT ![cur].stage = "failed"]
    /\ mpc' = "aborted"
    /\ UNCHANGED <<buildVars, batchConfig, cur, all_story_branches, combined>>

\* lines 152-170 and 280-301: text was extracted, the raw text is saved (a
\* failure of that write is swallowed) and create_story_branch_from_text is
\* called
ExtractReturns ==
    /\ mpc = "extract"
    /\ mpc' = "building"
    /\ filename' = NameForBuild(sources[cur])
    /\ bpc' = "formatter"
    /\ UNCHANGED <<disease, how_many_nodes, summary, summary_file, story,
                   fault, returned, batchConfig, cur, all_story_branches,
                   track, combined>>

\* lines 153-157 and 281-285: no text was extracted (extract_text_from_pdf
\* and extract_text_from_url return "" on any error); continue
ExtractReturnsNothing ==
    /\ mpc = "extract"
    /\ track' = [track EXCEPT ![cur].stage = "skipped"]
    /\ mpc' = "cleanup"
    /\ UNCHANGED <<buildVars, batchConfig, cur, all_story_branches, combined>>

\* lines 168-173 and 299-304: create_story_branch_from_text has returned
AfterBuild ==
    /\ mpc = "building"
    /\ bpc = "returned"
    /\ mpc' = IF StoryBranchMade(returned) THEN "save_json" ELSE "cleanup"
    /\ track' = [track EXCEPT
           ![cur].built = returned.doc.ok,
           ![cur].stage = IF returned.doc.ok THEN @ ELSE "failed"]
    /\ UNCHANGED <<buildVars, batchConfig, cur, all_story_branches, combined>>

\* lines 175-180 and 306-311: utils.save_json_to_file writes the raw
\* narrative JSON, or fails to and swallows the error
SaveStoryBranchJson(written) ==
    /\ mpc = "save_json"
    /\ track' = [track EXCEPT ![cur].json = IF written THEN "written" ELSE "failed"]
    /\ mpc' = IF enhance_conversations THEN "enhance" ELSE "append"
    /\ UNCHANGED <<buildVars, batchConfig, cur, all_story_branches, combined>>

\* lines 184-191 and 315-322: enhance_conversations returns the document
EnhanceReturns ==
    /\ mpc = "enhance"
    /\ track' = [track EXCEPT ![cur].enriched = "returned"]
    /\ mpc' = "append"
    /\ UNCHANGED <<buildVars, batchConfig, cur, all_story_branches, combined>>

\* EnhanceRaises with the exception leaving both loops
EnhanceRaisesEscapes ==
    /\ mpc = "enhance"
    /\ track' = [track EXCEPT ![cur].enriched = "raised", ![cur].stage = "failed"]
    /\ mpc' = "aborted"
    /\ UNCHANGED <<buildVars, batchConfig, cur, all_story_branches, combined>>

\* lines 184-186, 254-258 and 385-389: enhance_conversations raises
EnhanceRaises ==
    /\ mpc = "enhance"
    /\ track' = [track EXCEPT ![cur].enriched = "raised", ![cur].stage = "failed"]
    /\ mpc' = OnEnhanceException
    /\ UNCHANGED <<buildVars, batchConfig, cur, all_story_branches, combined>>

\* Collected keeping the newest entry only
CollectedLatestOnly(branches, entry) == <<entry>>

\* lines 194 and 325: all_story_branches.append((story_branch, base_filename))
Collected(branches, entry) == Append(branches, entry)

\* lines 194-201 and 325-332
AppendStoryBranch ==
    /\ mpc = "append"
    /\ all_story_branches' =
           Collected(all_story_branches,
                     [src |-> cur, name |-> returned.name, doc |-> returned.doc])
    /\ track' = [track EXCEPT ![cur].appended = TRUE]
    /\ mpc' = IF PerDocumentExcel(combine_excel) THEN "excel" ELSE "cleanup"
    /\ UNCHANGED <<buildVars, batchConfig, cur, combined>>

\* lines 203-216 and 334-347: story_branch_to_excel writes the document's
\* spreadsheet, or fails to and returns None
StoryBranchToExcel(written) ==
    /\ mpc = "excel"
    /\ track' = [track EXCEPT ![cur].excel = IF written THEN "written" ELSE "failed"]
    /\ mpc' = "cleanup"
    /\ UNCHANGED <<buildVars, batchConfig, cur, all_story_branches, combined>>

\* lines 260-264, and the end of the body of either loop
EndSource ==
    /\ mpc = "cleanup"
    /\ track' = [track EXCEPT
           ![cur].stage = IF @ = "running" THEN "done" ELSE @]
    /\ mpc' = "loop"
    /\ UNCHANGED <<buildVars, batchConfig, cur, all_story_branches, combined>>

\* line 392: both loops are over
LoopsOver ==
    /\ mpc = "loop"
    /\ cur = Len(sources)
    /\ mpc' = IF combine_excel /\ all_story_branches # <<>>
              THEN "combine" ELSE "finished"
    /\ UNCHANGED <<buildVars, batchConfig, cur, all_story_branches, track,
                   combined>>

\* lines 394-408: combine_story_branches_to_excel returns the workbook, or
\* fails and returns an empty buffer
CombineStoryBranchesToExcel(made) ==
    /\ mpc = "combine"
    /\ combined' = IF made
                   THEN [made |-> TRUE, rows |-> CombineRows(all_story_branches)]
                   ELSE NoWorkbook
    /\ mpc' = "finished"
    /\ UNCHANGED <<buildVars, batchConfig, cur, all_story_branches, track>>

-----------------------------------------------------------------------------
(* Initial states and specifications *)

\* The documents a pass is started on.  A node without character2 that carries
\* an invalid background; a node with character2 and no background; a node
\* with an invalid background, an invalid type and a generated chat; a fully
\* valid node; and the node the second one is normalised to.  The third has
\* no choice and the fourth has one.
NodeKinds ==
    { Node("A", "p.1", "invalid_value", None, None, NoChat,
           <<Good("a1"), Bad("a2")>>),
      Node("B", "p.2", None, "paziente", "amico", NoChat,
           <<Good("b1"), Bad("b2")>>),
      Node("C", "p.3", "invalid_value", "paziente", "dottore", GeneratedChat,
           <<>>),
      Node("D", "p.4", "cucina", None, "familiare", GeneratedChat,
           <<Good("d1")>>),
      Node("B", "p.2", "sala", "paziente", "amico", NoChat,
           <<Good("b1"), Bad("b2")>>) }

RECURSIVE SeqsOf(_, _)
SeqsOf(S, n) ==
    IF n = 0 THEN {<<>>}
    ELSE LET shorter == SeqsOf(S, n - 1)
         IN  shorter \cup {Append(s, x) : s \in {t \in shorter : Len(t) = n - 1}, x \in S}

Documents == SeqsOf(NodeKinds, MaxNodes)

\* The node lists of the generator's answers: the pydantic schema accepts a
\* list of any length, of nodes with any of the choice lists
GeneratedNodes == SeqsOf(ChoiceLists, MaxStoryNodes)

BuildIdle ==
    /\ bpc = "idle"
    /\ disease = ""
    /\ how_many_nodes = 0
    /\ filename = <<>>
    /\ summary = ""
    /\ summary_file = ""
    /\ story = NoStory
    /\ fault = ""
    /\ returned = [doc |-> NoStory, name |-> NoName]

\* The documents of equal nodes: two nodes that differ only in their chat,
\* None and the empty list
EmptyChatKinds ==
    { Node("B", "p.2", "sala", "paziente", "amico", NoChat,
           <<Good("b1"), Bad("b2")>>),
      Node("B", "p.2", "sala", "paziente", "amico", EmptyChat,
           <<Good("b1"), Bad("b2")>>) }

\* The documents saved and read back: a node with every optional field set
\* and a generated chat, a node with none of them and a choice at the
\* default score, a node without choices
JsonNodeKinds ==
    { Node("A", "p.1", "sala", "paziente", "amico", GeneratedChat,
           <<Good("a1"), Bad("a2")>>),
      Node("B", "p.2", None, None, None, NoChat, <<Unscored("b1")>>),
      Node("C", "", "cucina", "paziente", None, NoChat, <<>>) }

JsonStories ==
    { StoryBranch(d, ns) :
        d \in {"hypertension", "diabete"}, ns \in SeqsOf(JsonNodeKinds, MaxJsonNodes) }

JsonIdle ==
    /\ jpc = "idle"
    /\ jstory = NoStory
    /\ jfile = NoFile
    /\ jsaved = FALSE
    /\ jdata = JNull

\* The batches: some uploaded PDFs, then some URLs
PdfSource == [kind |-> "pdf", name |-> <<"report", ".pdf">>]

UrlSource == [kind |-> "url", name |-> <<"page", ".html">>]

\* a URL whose last path segment has the base name of the uploaded PDF
UrlOfReport == [kind |-> "url", name |-> <<"report", ".html">>]

SourceLists ==
    UNION { { [j \in 1..(np + nu) |-> IF j <= np THEN PdfSource ELSE url] :
                np \in 0..MaxSources, nu \in 0..MaxSources } :
            url \in {UrlSource, UrlOfReport} } \ {<<>>}

Batches == {b \in SourceLists : Len(b) <= MaxSources}

BatchIdle ==
    /\ sources = <<>>
    /\ combine_excel = FALSE
    /\ enhance_conversations = FALSE
    /\ cur = 0
    /\ mpc = "idle"
    /\ all_story_branches = <<>>
    /\ track = <<>>
    /\ combined = NoWorkbook

RerunIdle ==
    /\ run_no = 1
    /\ first_selection = <<>>

Init ==
    /\ RerunIdle
    /\ JsonIdle
    /\ BatchIdle
    /\ nodes \in Documents
    /\ orig = nodes
    /\ prompts = <<>>
    /\ writes = [p \in 1..Len(nodes) |-> NoWrites]
    /\ dialogue_nodes = <<>>
    /\ i = 1
    /\ node_index = 1
    /\ result = ""
    /\ pc = "select"
    /\ calls = <<>>
    /\ outputs = <<>>
    /\ artifact = [written |-> FALSE, nodes |-> <<>>]
    /\ BuildIdle

Next ==
    \/ Select /\ UNCHANGED besidesEnrich
    \/ Iterate /\ UNCHANGED besidesEnrich
    \/ (\E raw \in RawOutputs : RunnerReturns(raw)) /\ UNCHANGED besidesEnrich
    \/ RunnerRaises /\ UNCHANGED besidesEnrich
    \/ Save /\ UNCHANGED besidesEnrich
    \/ SaveRaises /\ UNCHANGED besidesEnrich

Spec == Init /\ [][Next]_vars

EnrichIdle ==
    /\ nodes = <<>>
    /\ orig = <<>>
    /\ prompts = <<>>
    /\ writes = <<>>
    /\ dialogue_nodes = <<>>
    /\ i = 1
    /\ node_index = 1
    /\ result = ""
    /\ pc = "idle"
    /\ calls = <<>>
    /\ outputs = <<>>
    /\ artifact = [written |-> FALSE, nodes |-> <<>>]

InitBuild == BuildIdle /\ EnrichIdle /\ RerunIdle /\ JsonIdle /\ BatchIdle

NextBuild ==
    \/ (\E d \in Diseases, f \in Filenames, n \in 1..MaxStoryNodes :
            ClickGenerate(d, f, n)) /\ UNCHANGED besidesBuild
    \/ FormatterReturns("testo pulito") /\ UNCHANGED besidesBuild
    \/ StageRaises("formatter") /\ UNCHANGED besidesBuild
    \/ StageRaises("generator") /\ UNCHANGED besidesBuild
    \/ SaveSummary /\ UNCHANGED besidesBuild
    \/ SaveSummaryFails /\ UNCHANGED besidesBuild
    \/ (\E d \in ModelDiseases, ns \in GeneratedNodes : GeneratorReturns(d, ns))
          /\ UNCHANGED besidesBuild
    \/ ReturnStory /\ UNCHANGED besidesBuild
    \/ ReturnFailure /\ UNCHANGED besidesBuild

SpecBuild == InitBuild /\ [][NextBuild]_vars

\* One enrichment pass over a document of nodes that are equal up to an
\* empty chat, with the empty list among the model's answers
InitEmptyChat ==
    /\ nodes \in SeqsOf(EmptyChatKinds, MaxNodes)
    /\ orig = nodes
    /\ prompts = <<>>
    /\ writes = [p \in 1..Len(nodes) |-> NoWrites]
    /\ dialogue_nodes = <<>>
    /\ i = 1
    /\ node_index = 1
    /\ result = ""
    /\ pc = "select"
    /\ calls = <<>>
    /\ outputs = <<>>
    /\ artifact = [written |-> FALSE, nodes |-> <<>>]
    /\ BuildIdle
    /\ RerunIdle
    /\ JsonIdle
    /\ BatchIdle

NextEmptyChat ==
    \/ Select /\ UNCHANGED besidesEnrich
    \/ Iterate /\ UNCHANGED besidesEnrich
    \/ (\E raw \in {RawEmptyList, RawTurns, RawGarbage} : RunnerReturns(raw))
          /\ UNCHANGED besidesEnrich
    \/ RunnerRaises /\ UNCHANGED besidesEnrich
    \/ Save /\ UNCHANGED besidesEnrich
    \/ SaveRaises /\ UNCHANGED besidesEnrich

SpecEmptyChat == InitEmptyChat /\ [][NextEmptyChat]_vars

\* Two enrichment passes in a row over one document
InitTwice == Init

NextTwice ==
    \/ Select /\ UNCHANGED besidesEnrich
    \/ Iterate /\ UNCHANGED besidesEnrich
    \/ (\E raw \in {RawTurns, RawGarbage} : RunnerReturns(raw))
          /\ UNCHANGED besidesEnrich
    \/ Save /\ UNCHANGED besidesEnrich
    \/ EnhanceAgain /\ UNCHANGED besidesTwice

SpecTwice == InitTwice /\ [][NextTwice]_vars

\* A document saved to its JSON file and read back
InitJson ==
    /\ jpc = "save"
    /\ jstory \in JsonStories
    /\ jfile = NoFile
    /\ jsaved = FALSE
    /\ jdata = JNull
    /\ BuildIdle
    /\ EnrichIdle
    /\ RerunIdle
    /\ BatchIdle

NextJson ==
    \/ SaveJsonToFile /\ UNCHANGED besidesJson
    \/ (\E opened \in BOOLEAN,
            n \in {0, Len(JsonDump(ModelDump(jstory))) - 1} :
            SaveJsonToFileFails(opened, n)) /\ UNCHANGED besidesJson
    \/ ReadJsonFromFile /\ UNCHANGED besidesJson
    \/ ReadJsonFromFileFails /\ UNCHANGED besidesJson

SpecJson == InitJson /\ [][NextJson]_vars

\* One run of main over a batch, from the point where the button was pressed
\* with a disease (lines 104-129)
InitBatch ==
    /\ sources \in Batches
    /\ combine_excel \in BOOLEAN
    /\ enhance_conversations \in BOOLEAN
    /\ cur = 0
    /\ mpc = "loop"
    /\ all_story_branches = <<>>
    /\ track = [s \in 1..Len(sources) |-> Pending]
    /\ combined = NoWorkbook
    /\ bpc = "idle"
    /\ disease = "hypertension"
    /\ how_many_nodes = 1
    /\ filename = <<>>
    /\ summary = ""
    /\ summary_file = ""
    /\ story = NoStory
    /\ fault = ""
    /\ returned = [doc |-> NoStory, name |-> NoName]
    /\ EnrichIdle
    /\ RerunIdle
    /\ JsonIdle

NextBatch ==
    \/ StartSource /\ UNCHANGED besidesBatch
    \/ TempSave /\ UNCHANGED besidesBatch
    \/ TempSaveFails /\ UNCHANGED besidesBatch
    \/ ExtractReturns /\ UNCHANGED besidesBatch
    \/ ExtractReturnsNothing /\ UNCHANGED besidesBatch
    \/ FormatterReturns("testo pulito") /\ UNCHANGED besidesBuild
    \/ StageRaises("formatter") /\ UNCHANGED besidesBuild
    \/ StageRaises("generator") /\ UNCHANGED besidesBuild
    \/ SaveSummary /\ UNCHANGED besidesBuild
    \/ SaveSummaryFails /\ UNCHANGED besidesBuild
    \/ GeneratorReturns("ipertensione", <<<<Good("a"), Bad("b")>>>>)
          /\ UNCHANGED besidesBuild
    \/ ReturnStory /\ UNCHANGED besidesBuild
    \/ ReturnFailure /\ UNCHANGED besidesBuild
    \/ AfterBuild /\ UNCHANGED besidesBatch
    \/ (\E written \in BOOLEAN : SaveStoryBranchJson(written))
          /\ UNCHANGED besidesBatch
    \/ EnhanceReturns /\ UNCHANGED besidesBatch
    \/ EnhanceRaises /\ UNCHANGED besidesBatch
    \/ AppendStoryBranch /\ UNCHANGED besidesBatch
    \/ (\E written \in BOOLEAN : StoryBranchToExcel(written))
          /\ UNCHANGED besidesBatch
    \/ EndSource /\ UNCHANGED besidesBatch
    \/ LoopsOver /\ UNCHANGED besidesBatch
    \/ (\E made \in BOOLEAN : CombineStoryBranchesToExcel(made))
          /\ UNCHANGED besidesBatch

SpecBatch == InitBatch /\ [][NextBatch]_vars

-----------------------------------------------------------------------------
(* Properties of the enrichment pass *)

\* The nodes the pass is to select, read off the document as it was when the
\* pass started: the nodes with character2 that have at most two such nodes
\* before them.
WithCharacter2Upto(p) == {q \in 1..p : orig[q].character2 # None}

SelectedSet ==
    {p \in 1..Len(orig) :
        orig[p].character2 # None /\ Cardinality(WithCharacter2Upto(p)) <= 3}

\* the pass has returned
PassDone == pc = "done"

\* a model output that is a JSON list of who/text objects
IsTurnsOutput(raw) ==
    /\ JsonLoads(raw).ok
    /\ JsonLoads(raw).value.form = "list"
    /\ Len(JsonLoads(raw).value.items) > 0

\* a chat that is a sequence of turns
IsTurnSequence(chat) == chat.form \in {"list", "ChatMessage"}

\* C1: the nodes processed (validated, model call issued) are, in order, the
\* first nodes of SelectedSet: never a node without character2, never more
\* than 3, and once the pass has returned all min(3, k) of them.
C1_ProcessedAreFirstThree ==
    /\ \A j \in 1..Len(calls) :
          /\ calls[j] \in SelectedSet
          /\ Cardinality({q \in SelectedSet : q < calls[j]}) = j - 1
    /\ Len(calls) <= 3
    /\ PassDone => Len(calls) = Cardinality(SelectedSet)

C1_Witness ==
    /\ PassDone
    /\ Len(calls) = 3
    /\ Cardinality(WithCharacter2Upto(Len(orig))) > 3
    /\ calls = <<1, 2, 3>>

\* C2: a node that is not selected (no character2, or beyond the cap) equals
\* what it was when the pass started, in every field, at every moment.
C2_UnselectedUntouched ==
    /\ Len(nodes) = Len(orig)
    /\ \A p \in 1..Len(nodes) : p \notin SelectedSet => nodes[p] = orig[p]

C2_Witness ==
    /\ PassDone
    /\ \E p \in 1..Len(orig) :
          /\ p \notin SelectedSet
          /\ orig[p].character2 = "dottore"
          /\ nodes[p] = orig[p]
    /\ \E q \in SelectedSet : nodes[q].chat # orig[q].chat
    /\ \E q \in SelectedSet : nodes[q].background # orig[q].background

\* C3 as stated: after the pass, every selected node whose model output is a
\* well-formed list of turns has exactly that list as its chat.
C3_OwnOutputBecomesChat ==
    PassDone =>
        \A j \in 1..Len(outputs) :
            IsTurnsOutput(outputs[j]) =>
                nodes[calls[j]].chat = JsonLoads(outputs[j]).value

\* C4 as stated: after the pass, a selected node whose model output could not
\* be parsed has the chat it had before its call (no write reaches a node
\* before its own call, so that is the chat it started with).
C4_UnparsedKeepsChat ==
    PassDone =>
        \A j \in 1..Len(outputs) :
            ~JsonLoads(outputs[j]).ok =>
                nodes[calls[j]].chat = orig[calls[j]].chat

\* C5 as stated: every node's chat is its prior value or a sequence of turns.
C5_ChatIsPriorOrTurns ==
    \A p \in 1..Len(nodes) :
        nodes[p].chat = orig[p].chat \/ IsTurnSequence(nodes[p].chat)

\* C6: every processed node has background "sala" if its background was None
\* or outside BackgroundType, and its old background otherwise.
C6_BackgroundDefaulted ==
    \A j \in 1..Len(calls) :
        nodes[calls[j]].background =
            IF orig[calls[j]].background \in BackgroundType
            THEN orig[calls[j]].background
            ELSE "sala"

C6_Witness ==
    /\ PassDone
    /\ \E j \in 1..Len(calls) : orig[calls[j]].background = None
    /\ \E j \in 1..Len(calls) : orig[calls[j]].background = "invalid_value"
    /\ \E j \in 1..Len(calls) : orig[calls[j]].background = "cucina"

\* C7: every processed node has character2.type "familiare" if its type was
\* outside CharacterType and its old type otherwise; and when the output for a
\* node whose type was corrected is a well-formed list of turns, the node has
\* that list as chat once its output has been handled.
C7_TypeDefaulted ==
    /\ \A j \in 1..Len(calls) :
          nodes[calls[j]].character2 =
              IF orig[calls[j]].character2 \in CharacterType
              THEN orig[calls[j]].character2
              ELSE "familiare"
    /\ \A j \in 1..Len(outputs) :
          ( /\ pc = "loop"
            /\ j = i - 1
            /\ orig[calls[j]].character2 \notin CharacterType
            /\ IsTurnsOutput(outputs[j]) )
          => /\ nodes[calls[j]].character2 = "familiare"
             /\ nodes[calls[j]].chat = JsonLoads(outputs[j]).value

C7_Witness ==
    /\ pc = "loop"
    /\ i = 3
    /\ orig[calls[2]].character2 = "dottore"
    /\ orig[calls[1]].character2 = "amico"
    /\ outputs[2] = RawTurns
    /\ Len(nodes[calls[2]].chat.items) = 4

\* C8 as stated: after a completed pass no node of the persisted document
\* carries a background outside BackgroundType or a character2.type outside
\* CharacterType.
C8_NoInvalidValueAnywhere ==
    PassDone =>
        \A p \in 1..Len(artifact.nodes) :
            /\ artifact.nodes[p].background \in BackgroundType \cup {None}
            /\ artifact.nodes[p].character2 \in CharacterType \cup {None}

\* C8 amended: after a completed pass the persisted document is the document
\* returned, and every selected node of it has a background in BackgroundType
\* and a character2.type in CharacterType.
C8_SelectedNormalised ==
    PassDone =>
        /\ artifact.written
        /\ artifact.nodes = nodes
        /\ \A p \in SelectedSet :
              /\ nodes[p].background \in BackgroundType
              /\ nodes[p].character2 \in CharacterType

C8_Witness ==
    /\ PassDone
    /\ \E p \in SelectedSet : orig[p].background = "invalid_value"
    /\ \E p \in SelectedSet : orig[p].character2 = "dottore"
    /\ \E p \in 1..Len(nodes) :
          p \notin SelectedSet /\ nodes[p].background = "invalid_value"

\* the model call of the pass raised: the pass stopped with a call that got
\* no output
RunnerRaised == pc = "raised" /\ Len(outputs) < Len(calls)

\* C14: when the model call for the k-th selected node raises, the fault
\* leaves enhance_conversations; no further step of the pass follows (no
\* model call for the candidates after k), the candidates after k are as they
\* were at the start, and the enriched artifact is not written.
C14_FaultStopsPass ==
    RunnerRaised =>
        /\ ~ENABLED Next
        /\ ~artifact.written
        /\ \A p \in SelectedSet :
              (\A j \in 1..Len(calls) : calls[j] < p) => nodes[p] = orig[p]

C14_Witness ==
    /\ RunnerRaised
    /\ Len(calls) = 2
    /\ Cardinality(SelectedSet) = 3
    /\ nodes[calls[1]].chat # orig[calls[1]].chat
    /\ \E p \in SelectedSet : p > calls[2] /\ nodes[p] = orig[p]

\* C15 as stated, for the enriched narrative JSON: a failure to write a sink
\* never raises, so the only exception that leaves the pass is the one of
\* a model call.
C15_SinkFailureNeverRaises == pc = "raised" => RunnerRaised

\* C16: enrichment never adds, removes or reorders nodes and never changes a
\* node's situation, reasoning, character1 or choices.
C16_FrameOfEnrichment ==
    /\ Len(nodes) = Len(orig)
    /\ \A p \in 1..Len(nodes) :
          /\ nodes[p].situation = orig[p].situation
          /\ nodes[p].reasoning = orig[p].reasoning
          /\ nodes[p].character1 = orig[p].character1
          /\ nodes[p].choices = orig[p].choices

C16_Witness ==
    /\ PassDone
    /\ Len(nodes) = 3
    /\ nodes[1].situation # nodes[2].situation
    /\ \E p \in 1..Len(nodes) : nodes[p].chat # orig[p].chat
    /\ \E p \in 1..Len(nodes) : nodes[p].background # orig[p].background
    /\ \E p \in 1..Len(nodes) : nodes[p].character2 # orig[p].character2

\* the positions of a selection
Selection(sel) == {sel[j] : j \in 1..Len(sel)}

\* the second pass has made its selection
SecondSelected == run_no = 2 /\ pc # "select"

CallsInDocumentOrder == \A j \in 1..Len(calls) - 1 : calls[j] < calls[j + 1]

\* a call is issued only when every earlier call has had its response
\* handled, so that at most one call is without a response
OneCallInFlight ==
    /\ Len(outputs) <= Len(calls)
    /\ Len(calls) <= Len(outputs) + 1
    /\ Len(calls) = Len(outputs) + 1 <=> (pc = "await" \/ RunnerRaised)

\* C21 as stated: the calls are issued in document order, one at a time,
\* each after the previous response was handled, and the position reported
\* for a step (node_index) is the document position of the node processed.
C21_SequentialAndReported ==
    /\ CallsInDocumentOrder
    /\ OneCallInFlight
    /\ pc = "await" => node_index = calls[Len(calls)]

\* C22: the enriched artifact is written when the call returns and at no
\* other moment, so once per call that returns: after every selected node
\* had its call and its response handled; what is written is the whole
\* document as returned, with all the nodes of the document passed in, also
\* when no node was selected; nothing follows the write.
C22_WrittenOnceAtEnd ==
    /\ artifact.written <=> PassDone
    /\ PassDone =>
          /\ ~ENABLED Next
          /\ Len(calls) = Cardinality(SelectedSet)
          /\ Len(outputs) = Len(calls)
          /\ artifact.nodes = nodes
          /\ Len(artifact.nodes) = Len(orig)
          /\ \A p \in 1..Len(orig) : artifact.nodes[p].situation = orig[p].situation

C22_Witness ==
    /\ PassDone
    /\ artifact.written
    /\ Len(artifact.nodes) = 3
    /\ Cardinality(SelectedSet) = 2
    /\ \E j \in 1..Len(outputs) : ~JsonLoads(outputs[j]).ok
    /\ \E j \in 1..Len(outputs) : IsTurnsOutput(outputs[j])

\* C23 as stated: within one pass the chat of a node is assigned at most
\* once, and so are its background and its character2.type.
C23_EachFieldWrittenOnce ==
    \A p \in 1..Len(writes) :
        /\ writes[p].chat <= 1
        /\ writes[p].background <= 1
        /\ writes[p].character2 <= 1

\* the text of the k-th choice of a node as it was when the pass started,
\* empty when the node has fewer than k choices
TextOfChoice(p, k) ==
    IF Len(orig[p].choices) >= k THEN orig[p].choices[k].text ELSE ""

\* C27: a selected node with fewer than two choices is enriched like any
\* other: building its prompt does not fail, the prompt carries the text of
\* its first two choices with an empty text for each missing one, and the
\* node gets its model call and its response handled.
C27_FewChoicesStillEnriched ==
    /\ Len(prompts) = Len(calls)
    /\ \A j \in 1..Len(calls) :
          /\ prompts[j].choice1 = TextOfChoice(calls[j], 1)
          /\ prompts[j].choice2 = TextOfChoice(calls[j], 2)
    /\ (pc = "loop" /\ i <= Len(dialogue_nodes)) => ENABLED Iterate
    /\ PassDone =>
          /\ {calls[j] : j \in 1..Len(calls)} = SelectedSet
          /\ Len(outputs) = Len(calls)

C27_Witness ==
    /\ PassDone
    /\ \E j, k \in 1..Len(calls) :
          /\ orig[calls[j]].choices = <<>>
          /\ prompts[j].choice1 = ""
          /\ prompts[j].choice2 = ""
          /\ Len(orig[calls[k]].choices) = 1
          /\ prompts[k].choice1 = "d1"
          /\ prompts[k].choice2 = ""
          /\ IsTurnsOutput(outputs[j])
          /\ nodes[calls[j]].chat = JsonLoads(outputs[j]).value

\* C28: the position a dialogue is written to, found by value equality, is
\* the position of a selected node at or before the node being processed;
\* the dialogue of a node outside the selection never changes, equal nodes
\* or not.
C28_WriteLandsInSelection ==
    /\ pc = "await" =>
          /\ node_index \in SelectedSet
          /\ node_index <= calls[Len(calls)]
          /\ node_index <= Len(nodes)
    /\ \A p \in 1..Len(nodes) :
          p \notin SelectedSet => nodes[p].chat = orig[p].chat

C28_Witness ==
    /\ pc = "loop"
    /\ Len(outputs) > 0
    /\ Len(outputs) = Len(calls)
    /\ node_index < calls[Len(calls)]
    /\ node_index \in SelectedSet
    /\ IsTurnsOutput(outputs[Len(outputs)])
    /\ nodes[node_index].chat = JsonLoads(outputs[Len(outputs)]).value
    /\ \E p \in 1..Len(nodes) : p \notin SelectedSet /\ nodes[p] = orig[calls[Len(calls)]]

\* C29 as stated: a node whose model output was not usable leaves the pass
\* with its background and the role of its second speaker normalized and
\* with the dialogue it had before, in the returned document and in the
\* artifact.
C29_NormalizedButDialogueKept ==
    PassDone =>
        \A j \in 1..Len(calls) :
            ~ChatAssigned(outputs[j]) =>
                /\ nodes[calls[j]].background
                      = ValidatedBackground(orig[calls[j]].background)
                /\ nodes[calls[j]].character2
                      = ValidatedType(orig[calls[j]].character2)
                /\ nodes[calls[j]].chat = orig[calls[j]].chat
                /\ artifact.nodes[calls[j]] = nodes[calls[j]]

-----------------------------------------------------------------------------
(* Properties of the derived name *)

\* a source name without the extension it ends with
WithoutTrailingExtension(name) ==
    IF Len(name) > 1 /\ IsExtension(name[Len(name)])
    THEN SubSeq(name, 1, Len(name) - 1)
    ELSE name

\* C24 as stated: the name returned with a document is the source name with
\* only its trailing extension removed, the rest of the name unchanged.
C24_OnlyTrailingExtensionRemoved ==
    (bpc = "returned" /\ returned.doc.ok) =>
        returned.name.val = WithoutTrailingExtension(filename)

-----------------------------------------------------------------------------
(* Properties of the batch *)

Sources == 1..Len(sources)

\* the pipeline of source s succeeded: a document was generated and, when
\* enrichment is enabled, enrichment returned
Succeeded(s) ==
    /\ track[s].built
    /\ enhance_conversations => track[s].enriched = "returned"

\* the separator rows of the combined workbook, one per section
Sections == SelectSeq(combined.rows, LAMBDA r : r.kind = "separator")

\* source s has a section in the combined workbook
InCombined(s) ==
    combined.made /\ \E j \in 1..Len(combined.rows) : combined.rows[j].src = s

\* C12 as stated: whatever step of a document failed, the batch is not
\* aborted: the remaining sources are processed and the combined export
\* step is reached.
C12_FailureNeverAborts ==
    (\E s \in Sources : track[s].stage \in {"failed", "skipped"})
        => mpc # "aborted"

\* C13: the combined workbook has one section for each source whose
\* pipeline succeeded, in processing order, and no row of any other source.
C13_SectionsAreSuccesses ==
    combined.made =>
        /\ \A j \in 1..Len(Sections) - 1 : Sections[j].src < Sections[j + 1].src
        /\ {Sections[j].src : j \in 1..Len(Sections)}
              = {s \in Sources : Succeeded(s)}
        /\ \A j \in 1..Len(combined.rows) : Succeeded(combined.rows[j].src)

C13_Witness ==
    /\ combined.made
    /\ Len(sources) = 3
    /\ track[1].stage = "done"
    /\ track[2].stage = "skipped"
    /\ track[3].stage = "done"
    /\ Len(Sections) = 2
    /\ Sections[1].src = 1
    /\ Sections[2].src = 3

\* the order of the stages of a document, up to the raw narrative JSON:
\* the generator is called only after the formatter returned, never when
\* the formatter failed; enrichment never runs after the export
StagesInOrder ==
    /\ bpc \in {"generator", "set_disease"} => summary # "" /\ fault = ""
    /\ story.ok => summary # ""
    /\ fault = "formatter" => ~story.ok /\ ~returned.doc.ok
    /\ mpc = "enhance" => track[cur].excel = "no" /\ ~track[cur].appended

\* a spreadsheet export of a document happens only after generation
\* succeeded and, when enrichment is enabled, after enrichment returned
ExportAfterEnrichment ==
    \A s \in Sources :
        (track[s].excel # "no" \/ InCombined(s)) =>
            /\ track[s].built
            /\ enhance_conversations => track[s].enriched = "returned"

\* enrichment of source s has been started
EnrichmentStarted(s) ==
    track[s].enriched # "no" \/ (s = cur /\ mpc = "enhance")

\* C19 as stated: the stages run in order, enrichment starts only after
\* generation succeeded and the raw narrative JSON was written, and the
\* export only after enrichment (when enabled) returned.
C19_EnrichAfterJsonWritten ==
    /\ StagesInOrder
    /\ ExportAfterEnrichment
    /\ \A s \in Sources :
          EnrichmentStarted(s) => track[s].built /\ track[s].json = "written"

\* C19 amended: as above, but enrichment starts once the write of the raw
\* narrative JSON was attempted, whether or not it succeeded.
C19_EnrichAfterJsonAttempt ==
    /\ StagesInOrder
    /\ ExportAfterEnrichment
    /\ \A s \in Sources :
          EnrichmentStarted(s) => track[s].built /\ track[s].json # "no"

C19_Witness ==
    /\ mpc = "finished"
    /\ enhance_conversations
    /\ track[1].json = "failed"
    /\ track[1].enriched = "returned"
    /\ track[1].excel = "written"
    /\ summary_file # ""

\* the export of source s has been attempted: its own spreadsheet, or the
\* combined one that holds it
ExportTried(s) ==
    \/ track[s].excel # "no"
    \/ track[s].appended /\ combine_excel /\ mpc = "finished"

\* the iteration of source s is over
IterationOver(s) == track[s].stage \in {"skipped", "failed", "done"}

\* C20 as stated: when a source begins, every source before it has been
\* through all its steps, its export included, in both spreadsheet modes.
C20_ExportBeforeNext ==
    \A s \in Sources :
        s < cur =>
            /\ IterationOver(s)
            /\ track[s].appended => ExportTried(s)

\* C20 amended: when a source begins, the iteration of every source before
\* it is over and no later source has been touched; in per-document mode
\* that includes the spreadsheet of every collected document, in combined
\* mode no per-document spreadsheet is written and the one combined export
\* happens after the last source.
C20_Sequential ==
    /\ \A s \in Sources :
          /\ s < cur => IterationOver(s)
          /\ s > cur => track[s] = Pending
          /\ (s < cur /\ track[s].appended /\ ~combine_excel)
                => track[s].excel # "no"
          /\ combine_excel => track[s].excel = "no"
    /\ combined.made =>
          /\ combine_excel
          /\ mpc = "finished"
          /\ \A s \in Sources : IterationOver(s)

C20_Witness ==
    /\ combined.made
    /\ Len(sources) = 2
    /\ sources[1].kind = "pdf"
    /\ sources[2].kind = "url"
    /\ InCombined(1)
    /\ InCombined(2)

\* the entries of the collection that belong to source s
EntriesOf(s) ==
    {j \in 1..Len(all_story_branches) : all_story_branches[j].src = s}

\* a step leaves the collection as it is or adds one entry at its end
AppendsOnly ==
    \/ all_story_branches' = all_story_branches
    \/ /\ Len(all_story_branches') = Len(all_story_branches) + 1
       /\ SubSeq(all_story_branches', 1, Len(all_story_branches))
             = all_story_branches

\* C25: the collection for the combined export only grows at its end:
\* no step removes, replaces or reorders an entry; every source whose
\* pipeline succeeded has exactly one entry once its iteration is over, and
\* a source whose pipeline failed has none.
C25_AppendOnly ==
    /\ [][AppendsOnly]_vars
    /\ [](\A s \in Sources :
            /\ Cardinality(EntriesOf(s)) <= 1
            /\ EntriesOf(s) # {} => Succeeded(s)
            /\ (IterationOver(s) /\ Succeeded(s)) => EntriesOf(s) # {})

C25_Witness ==
    /\ mpc = "finished"
    /\ Len(sources) = 3
    /\ Len(all_story_branches) = 2
    /\ all_story_branches[1].src = 1
    /\ all_story_branches[2].src = 3
    /\ track[2].built
    /\ track[2].enriched = "raised"

\* C26: the derived names tell the sources of a batch apart: the documents
\* collected from two different sources (two PDFs, two URLs, a PDF and a
\* URL) never carry the same derived name, so the artifacts of one are never
\* written over by the other.
C26_DerivedNamesUnique ==
    \A j, k \in 1..Len(all_story_branches) :
        sources[all_story_branches[j].src] # sources[all_story_branches[k].src]
            => all_story_branches[j].name # all_story_branches[k].name

\* the enrichment of source s raised
EnrichmentRaised(s) == track[s].enriched = "raised"

\* the exception of source s ended the iteration of s and nothing else: the
\* document is left out of the collection and of every spreadsheet, the
\* batch goes on to the cleanup of s and from there to the next source, and
\* a batch that reached its end has been through every source after s
CaughtAtDocument(s) ==
    /\ track[s].stage = "failed"
    /\ ~track[s].appended
    /\ EntriesOf(s) = {}
    /\ track[s].excel = "no"
    /\ ~InCombined(s)
    /\ s <= cur
    /\ s = cur => mpc \in {"cleanup", "loop", "combine", "finished"}
    /\ (s = cur /\ mpc = "cleanup") => ENABLED EndSource
    /\ (s = cur /\ mpc = "loop" /\ cur < Len(sources)) => ENABLED StartSource
    /\ mpc \in {"combine", "finished"} =>
          \A t \in Sources : t > s => IterationOver(t)

\* C30 as stated: a document whose enrichment raised is caught at the
\* document's boundary, is not collected and gets no spreadsheet, its raw
\* narrative JSON has been written, and the following documents are still
\* processed.
C30_RaisedAfterJsonWritten ==
    \A s \in Sources :
        EnrichmentRaised(s) => CaughtAtDocument(s) /\ track[s].json = "written"

\* C30 amended: as above, but the write of the raw narrative JSON has been
\* attempted, whether or not it succeeded.
C30_RaisedAfterJsonAttempt ==
    \A s \in Sources :
        EnrichmentRaised(s) => CaughtAtDocument(s) /\ track[s].json # "no"

C30_Witness ==
    /\ mpc = "finished"
    /\ Len(sources) = 3
    /\ sources[1].kind = "pdf"
    /\ sources[3].kind = "url"
    /\ EnrichmentRaised(1)
    /\ track[1].json = "written"
    /\ EnrichmentRaised(2)
    /\ track[2].json = "failed"
    /\ track[3].appended
    /\ track[3].excel = "written"
    /\ Len(all_story_branches) = 1

-----------------------------------------------------------------------------
(* Properties of the JSON artifact *)

\* the member of a dict under a key
Member(v, k) == v.items[CHOOSE j \in 1..Len(v.items) : v.items[j].key = k]

\* the document was written in full and the file was read
ReadBack == jpc = "read" /\ jsaved

\* C18: a document written to the JSON artifact and read back is the
\* document that was dumped: the same disease, the same nodes in the same
\* order, and for every choice the same text, outcome, impact and score.
C18_RoundTrip ==
    ReadBack =>
        /\ jdata = ModelDump(jstory)
        /\ Member(jdata, "disease").str = jstory.disease
        /\ Len(Member(jdata, "nodes").items) = Len(jstory.nodes)
        /\ \A p \in 1..Len(jstory.nodes) :
              LET read == Member(Member(jdata, "nodes").items[p], "choices").items
                  had == jstory.nodes[p].choices
              IN  /\ Member(Member(jdata, "nodes").items[p], "situation").str
                        = jstory.nodes[p].situation
                  /\ Len(read) = Len(had)
                  /\ \A c \in 1..Len(had) :
                        /\ Member(read[c], "text").str = had[c].text
                        /\ Member(read[c], "outcome").str = had[c].outcome
                        /\ Member(read[c], "impact").str = had[c].impact
                        /\ Member(read[c], "score").int = had[c].score
                        /\ Member(read[c], "score").type = "int"

C18_Witness ==
    /\ ReadBack
    /\ Len(jstory.nodes) = 2
    /\ jstory.nodes[1].situation = "B"
    /\ jstory.nodes[2].situation = "A"
    /\ Len(Member(Member(jdata, "nodes").items[2], "choices").items) = 2
    /\ Member(Member(jdata, "nodes").items[1], "background").type = "null"

-----------------------------------------------------------------------------
(* Properties of the generation pipeline *)

\* C9: create_story_branch_from_text never lets an exception escape; once it
\* has returned, a failure of the formatter or of the generator stage gave
\* (None, None), and a None document always comes with a None name.
C9_FailureIsNoneNone ==
    /\ bpc # "escaped"
    /\ bpc = "returned" =>
          /\ fault # "" => returned = [doc |-> NoStory, name |-> NoName]
          /\ ~returned.doc.ok => returned.name.isNone

C9_Witness ==
    /\ bpc = "returned"
    /\ fault = "generator"
    /\ summary_file # ""
    /\ ~returned.doc.ok
    /\ ReplacePdf(filename) # <<>>

\* C10: a document returned by create_story_branch_from_text carries the
\* disease the caller passed, whatever the model answered, and that disease
\* is not empty.
C10_TopicIsCallersTopic ==
    (bpc = "returned" /\ returned.doc.ok) =>
        /\ returned.doc.disease = disease
        /\ returned.doc.disease # ""

C10_Witness ==
    /\ bpc = "returned"
    /\ returned.doc.ok
    /\ disease = "hypertension"
    /\ story.disease = "ipertensione"
    /\ Len(returned.doc.nodes) = 1

\* C11 as stated: a returned document has exactly the number of nodes asked
\* for, every node has exactly two choices, and every choice has score +1 or
\* -1, never 0.
C11_ShapeAsRequested ==
    (bpc = "returned" /\ returned.doc.ok) =>
        /\ Len(returned.doc.nodes) = how_many_nodes
        /\ \A p \in 1..Len(returned.doc.nodes) :
              /\ Len(returned.doc.nodes[p]) = 2
              /\ \A c \in 1..Len(returned.doc.nodes[p]) :
                    returned.doc.nodes[p][c].score \in {1, -1}

====
